---- MODULE Spec2Model ----
(***************************************************************************)
(* OTP verification and session issuance of the next-auth application.     *)
(*                                                                         *)
(* The store is the "users" collection.  Every route handler is a process  *)
(* that runs in a request slot; it takes one step per store access         *)
(* (findOne, updateOne, deleteOne), so that concurrent requests interleave *)
(* exactly where the code awaits the store.  What a handler does between   *)
(* two store accesses (parsing, bcrypt, jwt.sign, a notification send, the *)
(* response) touches no shared state and is taken with the store access    *)
(* before or after it.                                                     *)
(* The variable resp is the response the last step returned, if any.       *)
(*                                                                         *)
(* Time: now is the wall clock (Date.now()), read in ticks.  OTP_TTL ticks *)
(* stand for the ten minutes an OTP lives.  A bcrypt computation takes     *)
(* time: the clock has advanced by a tick when it returns.                 *)
(***************************************************************************)
EXTENDS Integers, FiniteSets, Sequences, TLC

\* ---- bounds ----
MaxTime == 3

\* ---- input domains ----
Accounts == {1, 2}          \* _id of the documents of the collection
Emails == {1, 2, 3}         \* email i is the email of account i; 3 has no account
OtpEmails == {1, 3}         \* the emails the OTP operations are called with
Otps == {1, 2}              \* the 6-digit codes generateOTP can return / a client can submit
Passwords == {1, 2}         \* well-formed plaintext passwords (at least 6 characters)
Reqs == {1, 2}              \* request slots: requests in flight at the same time
VerifyTypes == {"signup", "password-reset", "other"}   \* route parameter [type]
ResendTypes == {"signup", "password-reset"}            \* z.enum of the resend schema
BodyKinds == {"otp", "password", "invalid"}            \* what the verification body parses as

\* the fields of a body: a malformed body has none the handler reads
Fields(wf, S) == IF wf THEN S ELSE {0}

\* a route parameter or body part the handler reads only under the condition read
ReadIf(read, S) == IF read THEN S ELSE {"none"}

\* the value a verification body carries
BodyValues(kind) == IF kind = "otp" THEN Otps ELSE IF kind = "password" THEN Passwords ELSE {0}

\* ---- values ----
NULL == -1                  \* null / undefined field
NoUser == 0                 \* findOne returned null
NoCookie == 0               \* the response sets no token cookie
ClearCookie == -2           \* the response sets token="" with expires = epoch 0
NoToken == 0                \* the request carries no token cookie
BadToken == -2              \* a token jwt.verify rejects
OTP_TTL == 2                \* 10 * 60 * 1000 ms, in ticks

VARIABLES store, now, req, resp, sessions, otpProof, resetProof, purpose, call

vars == <<store, now, req, resp, sessions, otpProof, resetProof, purpose, call>>

\* ---- bcrypt ----
Hash(p) == 100 + p
BcryptCompare(p, h) == h = Hash(p)

\* ---- store adapter ----
AbsentDoc == [exists |-> FALSE, password |-> NULL, emailVerified |-> FALSE,
              otp |-> NULL, otpExpiry |-> NULL, lastLogin |-> NULL, updatedAt |-> NULL]

findOne(e) == IF e \in Accounts /\ store[e].exists THEN e ELSE NoUser

findById(a) == IF a \in Accounts /\ store[a].exists THEN a ELSE NoUser

updateOne(a, set) == [store EXCEPT ![a] = IF @.exists THEN set @@ @ ELSE @]

deleteMany(a) == [b \in Accounts |-> AbsentDoc]

deleteOne(a) == [store EXCEPT ![a] = AbsentDoc]

\* ---- response bodies ----
MsgValidation == "validation error"
MsgInvalidCredentials == "Invalid credentials"
MsgNoPassword == "Invalid credentials or account created via different method."
MsgUnverified == "Email not verified. A new verification code has been sent to your email address."
MsgSignedIn == "Signed in successfully"
MsgResendGeneric == "If an account with that email exists, a new OTP has been sent."
MsgForgotGeneric == "If your email is registered, a password reset code has been sent."
MsgUserNotFound == "User not found."
MsgAlreadyVerified == "already_verified"
MsgInvalidOtp == "Invalid or expired OTP."
MsgUser == "user"
MsgProceed == "OTP verified. Proceed to set new password."
MsgInvalidType == "Invalid verification type."
MsgSamePassword == "New password cannot be the same as the old password."
MsgMissing == "Invalid request. Missing OTP or new password."
MsgRereadFailed == "Failed to retrieve user data"
MsgAuthRequired == "Authentication required."
MsgInvalidSession == "Invalid or expired session. Please sign in again."
MsgDeleteNotFound == "Account not found or already deleted."
MsgDeleted == "Account deleted successfully."
MsgNoSession == "No active session."
MsgMeNotFound == "User not found or session expired."
MsgInternal == "Internal server error."
MsgDeleteDbFailed == "Failed to delete account due to a database issue."
MsgServerError == "An internal server error occurred."
MsgMeDbFailed == "Failed to retrieve user data."
MsgProfileDbFailed == "Failed to retrieve user data due to database issue."
MsgProfileNotFound == "User profile not found. Account may have been deleted or corrupted."
MsgProfile == "profile"

\* ---- request slots and responses ----
IdleReq == [pc |-> "idle", op |-> "none", typ |-> "none", val |-> 0, acct |-> NoUser,
            uVerified |-> FALSE, uExpiry |-> NULL, token |-> NoToken]

NoResp == [op |-> "none", step |-> "none", email |-> 0, typ |-> "none", kind |-> "none", val |-> 0,
           acct |-> NoUser, status |-> 0, body |-> "none", cookie |-> NoCookie,
           redirect |-> FALSE, mails |-> 0, mailOk |-> TRUE, code |-> 0, delayed |-> FALSE]

\* the response of a handler that answers in its first step
Reply(op, e, typ, kind, val, a, status, body, cookie) ==
    [NoResp EXCEPT !.op = op, !.step = "find", !.email = e, !.typ = typ, !.kind = kind, !.val = val,
                   !.acct = a, !.status = status, !.body = body, !.cookie = cookie]

\* the response of a handler that answers in a later step
ReplyOf(r, status, body, cookie) ==
    [NoResp EXCEPT !.op = req[r].op, !.step = req[r].pc, !.typ = req[r].typ,
                   !.val = req[r].val, !.acct = req[r].acct,
                   !.status = status, !.body = body, !.cookie = cookie]

\* entering a later step: the locals the rest of the handler reads
Begin(r, op, typ, val, a, verified, expiry, pc) ==
    [req EXCEPT ![r] = [IdleReq EXCEPT !.pc = pc, !.op = op, !.typ = typ, !.val = val,
                                       !.acct = a, !.uVerified = verified, !.uExpiry = expiry]]

End(r) == [req EXCEPT ![r] = IdleReq]

AfterMailUncaught(ok, answer) ==
    IF ok THEN answer
    ELSE [answer EXCEPT !.status = 500, !.body = MsgInternal, !.cookie = NoCookie]

\* try { await send...Email(...) } catch { console.error(...) }: a throw of the send is
\* logged and the handler goes on to the answer it was going to give
AfterMail(ok, answer) == answer

\* a new request runs in the lowest free slot (the slots are interchangeable)
Free(r) == req[r].pc = "idle" /\ \A q \in Reqs : q < r => req[q].pc # "idle"

GhostsUnchanged == UNCHANGED <<sessions, otpProof, resetProof, purpose>>

\* otpProof[a]: some request presented the stored, unexpired otp of account a
\* resetProof[a]: a verify(password-reset) succeeded for a and no write of otp/otpExpiry
\* followed it
OtpWritten(a) == [resetProof EXCEPT ![a] = FALSE]

\* purpose[a]: the purpose the otp stored for account a was issued for ("none": no otp)
IssuedFor(a, p) == IF store[a].exists THEN [purpose EXCEPT ![a] = p] ELSE purpose

\* a call of a library function (generateOTP, the middleware) outside the handlers
NoCall == [fn |-> "none"]

Init ==
    /\ store = [a \in Accounts |->
                  IF a = 1
                  THEN \* created by sign-up: credential set, unverified, first OTP issued
                       [exists |-> TRUE, password |-> Hash(1), emailVerified |-> FALSE,
                        otp |-> 1, otpExpiry |-> OTP_TTL, lastLogin |-> NULL, updatedAt |-> 0]
                  ELSE \* federated-only account: no credential, verified by the provider
                       [exists |-> TRUE, password |-> NULL, emailVerified |-> TRUE,
                        otp |-> NULL, otpExpiry |-> NULL, lastLogin |-> NULL, updatedAt |-> 0]]
    /\ now = 1          \* one tick after the sign-up of account 1
    /\ req = [r \in Reqs |-> IdleReq]
    /\ resp = NoResp
    /\ sessions = {}
    /\ otpProof = [a \in Accounts |-> FALSE]
    /\ resetProof = [a \in Accounts |-> FALSE]
    /\ purpose = [a \in Accounts |-> IF a = 1 THEN "signup" ELSE "none"]
    /\ call = NoCall

\* ---- the clock ----
Tick ==
    /\ now < MaxTime
    /\ now' = now + 1
    /\ resp' = NoResp
    /\ UNCHANGED <<store, req, call>>
    /\ GhostsUnchanged

\* ---- sign-in (src/app/api/auth/signin/route.ts) ----
SignInIssueFieldsNoTtl(o, t) == [otp |-> o, otpExpiry |-> t, updatedAt |-> t]

SignInIssueFields(o, t) == [otp |-> o, otpExpiry |-> t + OTP_TTL, updatedAt |-> t]

SignInLoginFieldsClearsOtp(t) ==
    [lastLogin |-> t, updatedAt |-> t, otp |-> NULL, otpExpiry |-> NULL]

SignInLoginFields(t) == [lastLogin |-> t, updatedAt |-> t]

\* the body of the 401 for an account that has no password field
SignInNoPasswordBody == MsgNoPassword

\* zod validation, findOne by email, the credential checks
SignInFind(r, wf, e, p) ==
    /\ Free(r)
    /\ LET u == IF wf THEN findOne(e) ELSE NoUser
           ran == wf /\ u # NoUser /\ store[u].password # NULL   \* bcrypt.compare is run
           kind == IF wf THEN "wf" ELSE "bad"
           Answer(status, body) ==
               /\ resp' = Reply("signin", e, "none", kind, p, u, status, body, NoCookie)
               /\ req' = req
       IN  /\ ran => now < MaxTime
           /\ now' = IF ran THEN now + 1 ELSE now
           /\ IF ~wf THEN Answer(400, MsgValidation)
              ELSE IF u = NoUser THEN Answer(401, MsgInvalidCredentials)
              ELSE IF store[u].password = NULL THEN Answer(401, SignInNoPasswordBody)
              ELSE IF ~BcryptCompare(p, store[u].password)
                   THEN Answer(401, MsgInvalidCredentials)
              ELSE /\ resp' = NoResp
                   /\ req' = IF ~store[u].emailVerified
                             THEN Begin(r, "signin", "none", 0, u, FALSE, store[u].otpExpiry,
                                        "si_issue")
                             ELSE \* jwt.sign runs here, before the lastLogin update
                                  [Begin(r, "signin", "none", 0, u, FALSE, NULL, "si_login")
                                      EXCEPT ![r].token = u]
    /\ UNCHANGED <<store, call>>
    /\ GhostsUnchanged

\* unverified account: generateOTP, updateOne of otp/otpExpiry/updatedAt, sendOTPEmail in
\* its try/catch, the 403 with the redirect hint
SignInIssue(r, o, ok) ==
    /\ req[r].pc = "si_issue"
    /\ store' = updateOne(req[r].acct, SignInIssueFields(o, now))
    /\ resp' = AfterMail(ok, [ReplyOf(r, 403, MsgUnverified, NoCookie) EXCEPT
                                 !.redirect = TRUE, !.mails = 1, !.mailOk = ok, !.code = o])
    /\ req' = End(r)
    /\ resetProof' = OtpWritten(req[r].acct)
    /\ purpose' = IssuedFor(req[r].acct, "signup")
    /\ UNCHANGED <<now, sessions, otpProof, call>>

\* verified account: jwt.sign, updateOne of lastLogin/updatedAt, the 200 with the cookie
SignInLogin(r) ==
    /\ req[r].pc = "si_login"
    /\ store' = updateOne(req[r].acct, SignInLoginFields(now))
    /\ resp' = ReplyOf(r, 200, MsgSignedIn, req[r].token)
    /\ req' = End(r)
    /\ sessions' = sessions \cup {req[r].acct}
    /\ UNCHANGED <<now, otpProof, resetProof, purpose, call>>

SignInNext ==
    \/ \E r \in Reqs, wf \in BOOLEAN :
          \E e \in Fields(wf, Emails) :
             \* the password is read only when the account has a credential to compare
             \E p \in Fields(wf /\ findOne(e) # NoUser /\ store[e].password # NULL, Passwords) :
                SignInFind(r, wf, e, p)
    \/ \E r \in Reqs, o \in Otps, ok \in BOOLEAN : SignInIssue(r, o, ok)
    \/ \E r \in Reqs : SignInLogin(r)

\* ---- resend-otp (src/unnamed/part_005, lines 461-542) ----
ResendIssueFieldsExpiryOnly(o, t) == [otpExpiry |-> t + OTP_TTL, updatedAt |-> t]

ResendIssueFieldsUnverifies(o, t) ==
    [otp |-> o, otpExpiry |-> t + OTP_TTL, emailVerified |-> FALSE, updatedAt |-> t]

ResendIssueFields(o, t) == [otp |-> o, otpExpiry |-> t + OTP_TTL, updatedAt |-> t]

ResendSkipsAbsentOnly(a, typ, verified) == a = NoUser

\* the no-issue condition, evaluated on the document findOne returned
ResendSkips(a, typ, verified) == a = NoUser \/ (typ = "signup" /\ verified)

\* zod validation and findOne by email; the handler then awaits the 1 s delay
ResendFind(r, wf, e, typ) ==
    /\ Free(r)
    /\ IF ~wf
       THEN /\ resp' = Reply("resend", 0, "none", "bad", 0, NoUser, 400, MsgValidation, NoCookie)
            /\ req' = req
       ELSE /\ resp' = NoResp
            /\ req' = LET u == findOne(e) IN
                       Begin(r, "resend", typ, 0, u,
                             IF u = NoUser THEN FALSE ELSE store[u].emailVerified, NULL,
                             "rs_wait")
    /\ UNCHANGED <<store, now, call>>
    /\ GhostsUnchanged

\* after the delay: user absent, or signup on a verified account
ResendSkip(r) ==
    /\ req[r].pc = "rs_wait"
    /\ ResendSkips(req[r].acct, req[r].typ, req[r].uVerified)
    /\ resp' = [ReplyOf(r, 200, MsgResendGeneric, NoCookie) EXCEPT !.delayed = TRUE]
    /\ req' = End(r)
    /\ UNCHANGED <<store, now, call>>
    /\ GhostsUnchanged

\* after the delay: generateOTP, updateOne of otp/otpExpiry/updatedAt, sendOTPEmail in its
\* try/catch, the generic 200
ResendIssue(r, o, ok) ==
    /\ req[r].pc = "rs_wait"
    /\ ~ResendSkips(req[r].acct, req[r].typ, req[r].uVerified)
    /\ store' = updateOne(req[r].acct, ResendIssueFields(o, now))
    /\ resp' = AfterMail(ok, [ReplyOf(r, 200, MsgResendGeneric, NoCookie) EXCEPT
                                 !.delayed = TRUE, !.mails = 1, !.mailOk = ok, !.code = o])
    /\ req' = End(r)
    /\ resetProof' = OtpWritten(req[r].acct)
    /\ purpose' = IssuedFor(req[r].acct, req[r].typ)
    /\ UNCHANGED <<now, sessions, otpProof, call>>

ResendNext ==
    \/ \E r \in Reqs, wf \in BOOLEAN :
          \E e \in Fields(wf, OtpEmails) :
             \* the type is read only when the account was found
             \E typ \in ReadIf(wf /\ findOne(e) # NoUser, ResendTypes) : ResendFind(r, wf, e, typ)
    \/ \E r \in Reqs : ResendSkip(r)
    \/ \E r \in Reqs, o \in Otps, ok \in BOOLEAN : ResendIssue(r, o, ok)

\* ---- forgot-password (src/unnamed/part_006, lines 200-276) ----
ForgotIssueFieldsUnverifies(o, t) ==
    [otp |-> o, otpExpiry |-> t + OTP_TTL, emailVerified |-> FALSE, updatedAt |-> t]

ForgotIssueFields(o, t) == [otp |-> o, otpExpiry |-> t + OTP_TTL, updatedAt |-> t]

ForgotAbsentBodyLeaky == MsgUserNotFound

\* the body of the answer for an email that has no account
ForgotAbsentBody == MsgForgotGeneric

\* zod validation and findOne by email; an absent user is answered at once
ForgotFind(r, wf, e) ==
    /\ Free(r)
    /\ LET u == findOne(e) IN
       IF ~wf
       THEN /\ resp' = Reply("forgot", 0, "none", "bad", 0, NoUser, 400, MsgValidation, NoCookie)
            /\ req' = req
       ELSE IF u = NoUser
       THEN /\ resp' = Reply("forgot", e, "none", "wf", 0, NoUser,
                             200, ForgotAbsentBody, NoCookie)
            /\ req' = req
       ELSE /\ resp' = NoResp
            /\ req' = Begin(r, "forgot", "none", 0, u, FALSE, NULL, "fp_issue")
    /\ UNCHANGED <<store, now, call>>
    /\ GhostsUnchanged

\* generateOTP, updateOne of otp/otpExpiry/updatedAt, sendOTPEmail in its try/catch, the
\* generic 200
ForgotIssue(r, o, ok) ==
    /\ req[r].pc = "fp_issue"
    /\ store' = updateOne(req[r].acct, ForgotIssueFields(o, now))
    /\ resp' = AfterMail(ok, [ReplyOf(r, 200, MsgForgotGeneric, NoCookie) EXCEPT
                                 !.mails = 1, !.mailOk = ok, !.code = o])
    /\ req' = End(r)
    /\ resetProof' = OtpWritten(req[r].acct)
    /\ purpose' = IssuedFor(req[r].acct, "password-reset")
    /\ UNCHANGED <<now, sessions, otpProof, call>>

ForgotNext ==
    \/ \E r \in Reqs, wf \in BOOLEAN :
          \E e \in Fields(wf, OtpEmails) : ForgotFind(r, wf, e)
    \/ \E r \in Reqs, o \in Otps, ok \in BOOLEAN : ForgotIssue(r, o, ok)

\* ---- verification (src/unnamed/part_005, lines 78-308) ----
AlreadyVerifiedOff(typ, verified) == FALSE

AlreadyVerifiedAnyType(typ, verified) == verified

\* the already-verified guard of the OTP branch
AlreadyVerified(typ, verified) == typ = "signup" /\ verified

OtpRejectedNoExpiry(u, otp, t) ==
    \/ u.otp = NULL
    \/ u.otpExpiry = NULL
    \/ u.otp # otp

\* the OTP validation: missing otp, missing expiry, different code, expired
OtpRejected(u, otp, t) ==
    \/ u.otp = NULL
    \/ u.otpExpiry = NULL
    \/ u.otp # otp
    \/ u.otpExpiry < t

SignupVerifiedFieldsKeepOtp(t) == [emailVerified |-> TRUE, lastLogin |-> t, updatedAt |-> t]

SignupVerifiedFields(t) ==
    [emailVerified |-> TRUE, otp |-> NULL, otpExpiry |-> NULL, lastLogin |-> t, updatedAt |-> t]

PasswordResetFieldsKeepExpiry(h, t) ==
    [password |-> h, otp |-> NULL, emailVerified |-> TRUE, lastLogin |-> t, updatedAt |-> t]

PasswordResetFields(h, t) ==
    [password |-> h, otp |-> NULL, otpExpiry |-> NULL, emailVerified |-> TRUE,
     lastLogin |-> t, updatedAt |-> t]

\* the same-password check of the password step
SamePassword(u, p) == u.password # NULL /\ BcryptCompare(p, u.password)

\* findOne by email, then the body is parsed: OTP branch, password branch, neither
VerifyFind(r, e, typ, kind, val) ==
    /\ Free(r)
    /\ LET u == findOne(e)
           ran == u # NoUser /\ kind = "password"      \* bcrypt.compare / bcrypt.hash run
           matched == /\ u # NoUser
                      /\ kind = "otp"
                      /\ ~AlreadyVerified(typ, store[u].emailVerified)
                      /\ ~OtpRejected(store[u], val, now)
           Answer(status, body, cookie) ==
               /\ resp' = IF u = NoUser
                          THEN Reply("verify", e, "none", "none", 0, u, status, body, cookie)
                          ELSE Reply("verify", e, typ, kind, val, u, status, body, cookie)
               /\ req' = req
               /\ sessions' = IF cookie \in Accounts THEN sessions \cup {cookie} ELSE sessions
           Go(pc) ==
               /\ resp' = NoResp
               /\ req' = IF pc = "vr_update"
                         THEN Begin(r, "verify", "none", val, u, store[u].emailVerified, NULL, pc)
                         ELSE Begin(r, "verify", typ, val, u, FALSE, NULL, pc)
               /\ sessions' = sessions
       IN  /\ ran => now < MaxTime
           /\ now' = IF ran THEN now + 1 ELSE now
           /\ IF u = NoUser THEN Answer(404, MsgUserNotFound, NoCookie)
              ELSE IF kind = "otp"
              THEN IF AlreadyVerified(typ, store[u].emailVerified)
                   THEN Answer(200, MsgAlreadyVerified, u)
                   ELSE IF OtpRejected(store[u], val, now)
                   THEN Answer(400, MsgInvalidOtp, NoCookie)
                   ELSE IF typ = "signup" THEN Go("vf_update")
                   ELSE IF typ = "password-reset" THEN Answer(200, MsgProceed, NoCookie)
                   ELSE Answer(400, MsgInvalidType, NoCookie)
              ELSE IF kind = "password"
              THEN IF ~SamePassword(store[u], val)
                   THEN Go("vr_update")
                   ELSE Answer(400, MsgSamePassword, NoCookie)
              ELSE Answer(400, MsgMissing, NoCookie)
           /\ otpProof' = IF matched /\ typ \in {"signup", "password-reset"}
                          THEN [otpProof EXCEPT ![u] = TRUE] ELSE otpProof
           /\ resetProof' = IF matched /\ typ = "password-reset"
                            THEN [resetProof EXCEPT ![u] = TRUE] ELSE resetProof
    /\ UNCHANGED <<store, purpose, call>>

\* signup branch: the single updateOne that marks the account verified
VerifyUpdate(r) ==
    /\ req[r].pc = "vf_update"
    /\ store' = updateOne(req[r].acct, SignupVerifiedFields(now))
    /\ req' = [req EXCEPT ![r].pc = "vf_send"]
    /\ resp' = NoResp
    /\ resetProof' = OtpWritten(req[r].acct)
    /\ purpose' = IssuedFor(req[r].acct, "none")
    /\ UNCHANGED <<now, sessions, otpProof, call>>

\* the answer after the update: success mail in its try/catch, re-read by _id, cookie
FinishWithSession(r, mails, ok) ==
    /\ IF findById(req[r].acct) = NoUser
       THEN /\ resp' = AfterMail(ok, [ReplyOf(r, 500, MsgRereadFailed, NoCookie) EXCEPT
                                         !.mails = mails, !.mailOk = ok])
            /\ sessions' = sessions
       ELSE /\ resp' = AfterMail(ok, [ReplyOf(r, 200, MsgUser, req[r].acct) EXCEPT
                                         !.mails = mails, !.mailOk = ok])
            /\ sessions' = (sessions \cup {resp'.cookie}) \ {NoCookie}
    /\ req' = End(r)
    /\ UNCHANGED <<store, now, otpProof, resetProof, purpose, call>>

VerifyFinish(r, ok) ==
    /\ req[r].pc = "vf_send"
    /\ FinishWithSession(r, 1, ok)

\* password step: bcrypt.hash, the single updateOne that stores the credential
ResetUpdate(r) ==
    /\ req[r].pc = "vr_update"
    /\ store' = updateOne(req[r].acct, PasswordResetFields(Hash(req[r].val), now))
    /\ req' = [req EXCEPT ![r].pc = "vr_send"]
    /\ resp' = NoResp
    /\ resetProof' = OtpWritten(req[r].acct)
    /\ purpose' = IssuedFor(req[r].acct, "none")
    /\ UNCHANGED <<now, sessions, otpProof, call>>

\* one mail, or two when the account was unverified; a throw skips the rest
ResetFinish(r, ok) ==
    /\ req[r].pc = "vr_send"
    /\ FinishWithSession(r, IF req[r].uVerified \/ ~ok THEN 1 ELSE 2, ok)

VerifyNext ==
    \/ \E r \in Reqs, e \in OtpEmails :
          \* the body is read only when the account was found, the type only in the OTP
          \* branch
          \E kind \in ReadIf(findOne(e) # NoUser, BodyKinds) :
             \E typ \in ReadIf(kind = "otp", VerifyTypes), val \in BodyValues(kind) :
                VerifyFind(r, e, typ, kind, val)
    \/ \E r \in Reqs : VerifyUpdate(r)
    \/ \E r \in Reqs, ok \in BOOLEAN : VerifyFinish(r, ok)
    \/ \E r \in Reqs : ResetUpdate(r)
    \/ \E r \in Reqs, ok \in BOOLEAN : ResetFinish(r, ok)

\* ---- the store as the token-protected handlers see it ----
\* "ok": the calls succeed; "connect": await clientPromise rejects; "query": the
\* findOne / deleteOne of the handler throws
StoreOutcomes == {"ok", "connect", "query"}

\* ---- delete-account (src/unnamed/part_005, lines 325-417) ----
\* jwt.verify, deleteOne by the userId of the token
DeleteAccount(r, tok, st) ==
    /\ Free(r)
    /\ tok \in {NoToken, BadToken} \cup sessions
    /\ tok \in {NoToken, BadToken} => st = "ok"
    /\ LET Answer(a, status, body, cookie) ==
               resp' = Reply("delete", 0, "none", "none", tok, a, status, body, cookie)
           deleted == tok \in Accounts /\ st = "ok"
       IN  /\ IF tok = NoToken
              THEN Answer(NoUser, 401, MsgAuthRequired, NoCookie) /\ store' = store
              ELSE IF tok = BadToken
              THEN Answer(NoUser, 401, MsgInvalidSession, ClearCookie) /\ store' = store
              ELSE IF st = "connect"
              THEN Answer(NoUser, 500, MsgServerError, NoCookie) /\ store' = store
              ELSE IF st = "query"
              THEN Answer(NoUser, 500, MsgDeleteDbFailed, NoCookie) /\ store' = store
              ELSE IF findById(tok) = NoUser
              THEN Answer(NoUser, 404, MsgDeleteNotFound, ClearCookie) /\ store' = store
              ELSE Answer(tok, 200, MsgDeleted, ClearCookie) /\ store' = deleteOne(tok)
           /\ otpProof' = IF deleted THEN [otpProof EXCEPT ![tok] = FALSE] ELSE otpProof
           /\ resetProof' = IF deleted THEN [resetProof EXCEPT ![tok] = FALSE] ELSE resetProof
           /\ purpose' = IF deleted THEN [purpose EXCEPT ![tok] = "none"] ELSE purpose
    /\ UNCHANGED <<now, req, sessions, call>>

DeleteNext ==
    \E r \in Reqs, tok \in {NoToken, BadToken} \cup Accounts : DeleteAccount(r, tok, "ok")

\* ---- session probe (src/app/api/auth/me/route.ts) ----
MeRevokesNever(status) == NoCookie

\* the cookie directive of an answer that reports no session for a token that was sent
MeRevokes(status) == ClearCookie

\* token from the cookie, jwt.verify and payload check, findOne by the userId of the token
Me(r, tok, st) ==
    /\ Free(r)
    /\ tok \in {NoToken, BadToken} \cup sessions
    /\ tok \in {NoToken, BadToken} => st = "ok"
    /\ LET Answer(a, status, body, cookie) ==
               resp' = Reply("me", 0, "none", "none", tok, a, status, body, cookie)
       IN  IF tok = NoToken
           THEN Answer(NoUser, 200, MsgNoSession, NoCookie)
           ELSE IF tok = BadToken
           THEN Answer(NoUser, 401, MsgInvalidSession, MeRevokes(401))
           ELSE IF st = "connect"
           THEN Answer(NoUser, 500, MsgServerError, ClearCookie)
           ELSE IF st = "query"
           THEN Answer(NoUser, 500, MsgMeDbFailed, NoCookie)
           ELSE IF findById(tok) = NoUser
           THEN Answer(NoUser, 401, MsgMeNotFound, MeRevokes(401))
           ELSE Answer(tok, 200, MsgUser, NoCookie)
    /\ UNCHANGED <<store, now, req, call>>
    /\ GhostsUnchanged

MeNext == \E r \in Reqs, tok \in {NoToken, BadToken} \cup Accounts : Me(r, tok, "ok")

\* ---- profile (src/app/api/profile/route.ts) ----
\* token from the cookie, jwt.verify and payload check, findOne by the userId of the token
Profile(r, tok, st) ==
    /\ Free(r)
    /\ tok \in {NoToken, BadToken} \cup sessions
    /\ tok \in {NoToken, BadToken} => st = "ok"
    /\ LET Answer(a, status, body, cookie) ==
               resp' = Reply("profile", 0, "none", "none", tok, a, status, body, cookie)
       IN  IF tok = NoToken
           THEN Answer(NoUser, 401, MsgAuthRequired, NoCookie)
           ELSE IF tok = BadToken
           THEN Answer(NoUser, 401, MsgInvalidSession, ClearCookie)
           ELSE IF st = "connect"
           THEN Answer(NoUser, 500, MsgServerError, NoCookie)
           ELSE IF st = "query"
           THEN Answer(NoUser, 500, MsgProfileDbFailed, NoCookie)
           ELSE IF findById(tok) = NoUser
           THEN Answer(NoUser, 404, MsgProfileNotFound, ClearCookie)
           ELSE Answer(tok, 200, MsgProfile, NoCookie)
    /\ UNCHANGED <<store, now, req, call>>
    /\ GhostsUnchanged

ProfileNext ==
    \E r \in Reqs, tok \in {NoToken, BadToken} \cup Accounts, st \in StoreOutcomes :
       Profile(r, tok, st)

\* the token-protected handlers with a store call that fails
StoreFaultNext ==
    \E r \in Reqs, tok \in Accounts, st \in StoreOutcomes \ {"ok"} :
       DeleteAccount(r, tok, st) \/ Me(r, tok, st)

Next == Tick \/ SignInNext \/ ResendNext \/ ForgotNext \/ VerifyNext \/ DeleteNext \/ MeNext

Spec == Init /\ [][Next]_vars

\* the session handlers alone (sign-in and verification issue the tokens), with the
\* profile handler and with store calls that can fail
NextWithFaults ==
    \/ Tick \/ SignInNext \/ VerifyNext \/ DeleteNext \/ MeNext
    \/ ProfileNext \/ StoreFaultNext

SpecWithFaults == Init /\ [][NextWithFaults]_vars

\* ======================= library functions =======================
\* A string is the sequence of its characters.
IsPrefix(p, s) == Len(s) >= Len(p) /\ SubSeq(s, 1, Len(p)) = p

\* ---- generateOTP (src/unnamed/part_000, lines 46-67) ----
ByteValues == {0, 1, 15, 64, 66, 255}

\* crypto.randomBytes(4)
RandomBytes == [1..4 -> ByteValues]

HexDigits == <<"0", "1", "2", "3", "4", "5", "6", "7", "8", "9", "a", "b", "c", "d", "e", "f">>

DecDigits == <<"0", "1", "2", "3", "4", "5", "6", "7", "8", "9">>

\* bytes.toString("hex"): two hexadecimal digits per byte
toHex(bytes) ==
    [i \in 1..(2 * Len(bytes)) |->
        IF i % 2 = 1 THEN HexDigits[(bytes[(i + 1) \div 2] \div 16) + 1]
        ELSE HexDigits[(bytes[i \div 2] % 16) + 1]]

HexValue(c) == CHOOSE v \in 0..15 : HexDigits[v + 1] = c

\* parseInt(s, 16) % m.  TLC integers are 32 bits wide and signed, so
\* the remainder is taken after every digit; JavaScript computes parseInt exactly (the
\* value is below 2^53) and the remainder once, which is the same number.
RECURSIVE parseIntMod(_, _)
parseIntMod(s, m) ==
    IF s = <<>> THEN 0
    ELSE (parseIntMod(SubSeq(s, 1, Len(s) - 1), m) * 16 + HexValue(s[Len(s)])) % m

\* Number.prototype.toString(): decimal digits, no leading zero
RECURSIVE toString(_)
toString(n) ==
    IF n < 10 THEN <<DecDigits[n + 1]>>
    ELSE toString(n \div 10) \o <<DecDigits[(n % 10) + 1]>>

padStartNone(s, n, c) == s

\* String.prototype.padStart(n, c) with a one-character pad
RECURSIVE padStart(_, _, _)
padStart(s, n, c) == IF Len(s) >= n THEN s ELSE padStart(<<c>> \o s, n, c)

generateOTP(bytes) == padStart(toString(parseIntMod(toHex(bytes), 1000000)), 6, "0")

CallGenerateOTP(bytes) ==
    /\ call' = [fn |-> "generateOTP", bytes |-> bytes, result |-> generateOTP(bytes)]
    /\ UNCHANGED <<store, now, req, resp, sessions, otpProof, resetProof, purpose>>

\* ---- middleware (src/middleware.ts) ----
protectedRoutes == {<<"/", "d", "a", "s", "h", "b", "o", "a", "r", "d">>, <<"/", "s", "e", "t", "t", "i", "n", "g", "s">>, <<"/", "p", "r", "o", "f", "i", "l", "e">>}

authRedirectRoutes == {<<"/", "s", "i", "g", "n", "i", "n">>, <<"/", "s", "i", "g", "n", "u", "p">>, <<"/", "f", "o", "r", "g", "o", "t", "-", "p", "a", "s", "s", "w", "o", "r", "d">>}

PassThroughPrefixes == {<<"/", "a", "p", "i", "/">>, <<"/", "_", "n", "e", "x", "t", "/">>, <<"/", "f", "a", "v", "i", "c", "o", "n", ".", "i", "c", "o">>, <<"/", "p", "u", "b", "l", "i", "c", "/">>}

VerificationPrefix == <<"/", "v", "e", "r", "i", "f", "i", "c", "a", "t", "i", "o", "n", "/">>

Root == <<"/">>

\* _request.cookies.get('token')?.value: undefined, "" or a token
TokenCookies == {"absent", "empty", "jwt"}

\* the requested pathnames: each prefix the code or the matcher tests, and one other
\* page, followed by nothing, more characters, a sub-path, or a sub-path with a dot
PathSuffixes == {<<>>, <<"x">>, <<"/", "a">>, <<"/", "a", ".", "b">>}

Pathnames ==
    {p \o s : p \in protectedRoutes \cup authRedirectRoutes \cup PassThroughPrefixes
                    \cup {VerificationPrefix, Root, <<"/", "a", "b", "o", "u", "t">>},
              s \in PathSuffixes}

NextResponseNext == [kind |-> "next"]

NextResponseRedirect(to, from) == [kind |-> "redirect", to |-> to, from |-> from]

middleware(pathname, token) ==
    IF (\E p \in PassThroughPrefixes : IsPrefix(p, pathname)) \/ pathname = Root
    THEN NextResponseNext
    ELSE IF IsPrefix(VerificationPrefix, pathname)
    THEN IF token = "jwt" THEN NextResponseRedirect(Root, <<>>) ELSE NextResponseNext
    ELSE IF token = "jwt" /\ \E p \in authRedirectRoutes : IsPrefix(p, pathname)
    THEN NextResponseRedirect(Root, <<>>)
    ELSE IF (\E p \in protectedRoutes : IsPrefix(p, pathname)) /\ token # "jwt"
    THEN NextResponseRedirect(<<"/", "s", "i", "g", "n", "i", "n">>, pathname)
    ELSE NextResponseNext

\* the alternatives of the negative lookahead of config.matcher, tested right after the
\* leading "/"; "." in a pattern stands for any character
MatcherExclusions == {<<"a", "p", "i">>, <<"_", "n", "e", "x", "t", "/", "s", "t", "a", "t", "i", "c">>, <<"_", "n", "e", "x", "t", "/", "i", "m", "a", "g", "e">>, <<"f", "a", "v", "i", "c", "o", "n", ".", "i", "c", "o">>, <<"p", "u", "b", "l", "i", "c", "/">>}

MatchesAtStart(pattern, s) ==
    /\ Len(s) >= Len(pattern)
    /\ \A i \in 1..Len(pattern) : pattern[i] = "." \/ s[i] = pattern[i]

\* config.matcher: '/((?!api|_next/static|_next/image|favicon.ico|public/|.*\\..*).*)'
matcher(pathname) ==
    /\ pathname # <<>> /\ pathname[1] = "/"
    /\ LET rest == Tail(pathname) IN
       /\ \A x \in MatcherExclusions : ~MatchesAtStart(x, rest)
       /\ \A i \in 1..Len(rest) : rest[i] # "."

\* a page request: the middleware runs on the paths its matcher selects, every other
\* request goes on to the route
CallMiddleware(pathname, token) ==
    /\ call' = [fn |-> "middleware", pathname |-> pathname, token |-> token,
                invoked |-> matcher(pathname),
                result |-> IF matcher(pathname) THEN middleware(pathname, token)
                           ELSE NextResponseNext]
    /\ UNCHANGED <<store, now, req, resp, sessions, otpProof, resetProof, purpose>>

NextLib ==
    \/ \E bytes \in RandomBytes : CallGenerateOTP(bytes)
    \/ \E pathname \in Pathnames, token \in TokenCookies : CallMiddleware(pathname, token)

SpecLib == Init /\ [][NextLib]_vars

\* ======================= claims =======================
Exists(a) == a \in Accounts /\ store[a].exists

\* C1 (as claimed): the password step changes the stored credential of an account only
\* if a verify(password-reset) with the matching, unexpired OTP succeeded for it before
\* and that OTP challenge is still set and unexpired.
C1_CredentialOnlyAfterVerify ==
    [][\A a \in Accounts :
          (store[a].exists /\ store'[a].exists /\ store'[a].password # store[a].password)
          => (resetProof[a] /\ store[a].otp # NULL /\ store[a].otpExpiry # NULL
              /\ ~(store[a].otpExpiry < now))]_vars

\* C2: on an account the already-verified signup guard does not apply to, a verify call
\* whose OTP does not pass (otp null, expiry null, now > otpExpiry, or a different code)
\* is answered 400 InvalidOrExpiredOtp, the store is unchanged, no cookie is set; and no
\* request goes on to the signup update unless its OTP is the stored, unexpired one.
C2_InvalidOtpRejected ==
    [][/\ LET a == resp'.email IN
          (/\ resp'.op = "verify" /\ resp'.step = "find" /\ resp'.kind = "otp"
           /\ Exists(a)
           /\ ~(resp'.typ = "signup" /\ store[a].emailVerified)
           /\ \/ store[a].otp = NULL
              \/ store[a].otpExpiry = NULL
              \/ now > store[a].otpExpiry
              \/ resp'.val # store[a].otp)
          => (/\ resp'.status = 400 /\ resp'.body = MsgInvalidOtp
              /\ resp'.cookie = NoCookie
              /\ store' = store /\ sessions' = sessions)
       /\ \A r \in Reqs :
            (req[r].pc = "idle" /\ req'[r].pc = "vf_update")
            => LET a == req'[r].acct IN
               /\ store[a].otp # NULL /\ store[a].otpExpiry # NULL
               /\ store[a].otp = req'[r].val
               /\ ~(now > store[a].otpExpiry)]_vars

C2_Witness ==
    /\ resp.op = "verify" /\ resp.kind = "otp" /\ resp.status = 400
    /\ resp.body = MsgInvalidOtp
    /\ Exists(resp.email)
    /\ store[resp.email].otp = resp.val
    /\ store[resp.email].otpExpiry < now

C4_ReverifyIdempotent ==
    [][/\ LET a == resp'.email IN
          (/\ resp'.op = "verify" /\ resp'.step = "find" /\ resp'.kind = "otp"
           /\ resp'.typ = "signup"
           /\ Exists(a) /\ store[a].emailVerified)
          => (/\ resp'.status = 200 /\ resp'.body = MsgAlreadyVerified
              /\ resp'.cookie = a
              /\ store' = store)
       /\ \A r \in Reqs :
            (req[r].pc = "idle" /\ req'[r].pc = "vf_update")
            => ~store[req'[r].acct].emailVerified]_vars

C4_Witness ==
    /\ resp.op = "verify" /\ resp.body = MsgAlreadyVerified /\ resp.status = 200
    /\ resp.cookie = 1 /\ resp.val = 1
    /\ otpProof[1] /\ store[1].emailVerified /\ store[1].otp = NULL
    /\ store[1].lastLogin # NULL

\* C5: in every reachable state, under every interleaving, otp and otpExpiry of an
\* account are both null or both non-null.
C5_OtpAndExpiryTogether ==
    \A a \in Accounts : (store[a].otp = NULL) <=> (store[a].otpExpiry = NULL)

C5_Witness ==
    /\ req[1].pc = "rs_wait" /\ req[2].pc = "vr_send"
    /\ store[1].exists /\ store[1].otp = NULL /\ store[1].otpExpiry = NULL

\* C6 (as claimed): emailVerified turns from false to true only for an account for which
\* some request has presented the stored, unexpired OTP.
C6_VerifiedOnlyByOtp ==
    [][\A a \in Accounts :
          (store[a].exists /\ ~store[a].emailVerified /\ store'[a].emailVerified)
          => otpProof[a]]_vars

\* C7 (as claimed): sign-in answers the same 401 "Invalid credentials" when the email has
\* no account, when the account has no credential, and when the password does not match.
C7_GenericInvalidCredentials ==
    LET a == resp.email IN
    (/\ resp.op = "signin" /\ resp.step = "find" /\ resp.kind = "wf"
     /\ \/ ~Exists(a)
        \/ store[a].password = NULL
        \/ ~BcryptCompare(resp.val, store[a].password))
    => (resp.status = 401 /\ resp.body = MsgInvalidCredentials /\ resp.cookie = NoCookie)

\* C8: a sign-in with the correct password on an unverified account is not answered by
\* the credential checks and does not take the login path; it writes a generated otp
\* and an otpExpiry strictly greater than the otpExpiry the call found stored, sets no
\* cookie and is answered 403 with the redirect hint.
C8_UnverifiedSignInReissues ==
    [][/\ LET a == resp'.email IN
          ~(/\ resp'.op = "signin" /\ resp'.step = "find" /\ resp'.kind = "wf"
            /\ Exists(a) /\ store[a].password # NULL
            /\ BcryptCompare(resp'.val, store[a].password)
            /\ ~store[a].emailVerified)
       /\ \A r \in Reqs :
            /\ (req[r].pc = "idle" /\ req'[r].pc = "si_login")
               => store[req'[r].acct].emailVerified
            /\ (req[r].pc = "idle" /\ req'[r].pc = "si_issue")
               => req'[r].uExpiry = store[req'[r].acct].otpExpiry
            /\ (req[r].pc = "si_issue" /\ req'[r].pc = "idle")
               => LET a == req[r].acct IN
                  /\ resp'.status = 403 /\ resp'.body = MsgUnverified /\ resp'.redirect
                  /\ resp'.cookie = NoCookie /\ sessions' = sessions
                  /\ store[a].exists
                     => (/\ store'[a].otp \in Otps
                         /\ store'[a].otpExpiry # NULL
                         /\ store'[a].otpExpiry > req[r].uExpiry)]_vars

C8_Witness ==
    /\ resp.op = "signin" /\ resp.status = 403 /\ resp.redirect
    /\ store[1].exists /\ ~store[1].emailVerified
    /\ store[1].otpExpiry = now + OTP_TTL

\* C9: every answer to a well-formed resend-otp request is the same 200 with the same
\* body, and every answer to a well-formed forgot-password request is the same 200 with
\* the same body, whether the email has an account or not, in whatever state, and
\* whether the notification was dispatched or failed; no cookie, no redirect.
C9_EnumerationResistance ==
    /\ (resp.op = "resend" /\ resp.kind # "bad")
       => (resp.status = 200 /\ resp.body = MsgResendGeneric
           /\ resp.cookie = NoCookie /\ ~resp.redirect)
    /\ (resp.op = "forgot" /\ resp.kind # "bad")
       => (resp.status = 200 /\ resp.body = MsgForgotGeneric
           /\ resp.cookie = NoCookie /\ ~resp.redirect)

C9_Witness ==
    /\ resp.op = "forgot" /\ resp.acct = 1 /\ ~resp.mailOk /\ resp.status = 200
    /\ store[1].emailVerified

\* C10: a resend-otp request that found no account, or found a verified account with
\* purpose signup, leaves the whole store unchanged, dispatches no notification and is
\* answered with the generic 200.
C10_ResendNoIssue ==
    [][\A r \in Reqs :
          /\ (req[r].pc = "idle" /\ req'[r].pc = "rs_wait" /\ req'[r].acct # NoUser)
             => (/\ store[req'[r].acct].exists
                 /\ req'[r].uVerified = store[req'[r].acct].emailVerified)
          /\ (/\ req[r].pc = "rs_wait" /\ req'[r].pc = "idle"
              /\ \/ req[r].acct = NoUser
                 \/ (req[r].typ = "signup" /\ req[r].uVerified))
             => (/\ store' = store
                 /\ resp'.mails = 0
                 /\ resp'.status = 200 /\ resp'.body = MsgResendGeneric
                 /\ resp'.cookie = NoCookie)]_vars

C10_Witness ==
    /\ resp.op = "resend" /\ resp.step = "rs_wait" /\ resp.typ = "signup"
    /\ resp.acct = 1 /\ resp.mails = 0 /\ resp.status = 200
    /\ store[1].emailVerified

\* C11 (as claimed): a password step whose new password verifies against the current
\* credential is answered 400 SamePassword with nothing changed and no cookie; one that
\* passes the check stores the new hash, clears otp and otpExpiry, sets emailVerified and
\* is answered with the session cookie; and no password update ever replaces a credential
\* by one that verifies the same password as the credential it replaces.
C11_SamePasswordNeverStored ==
    [][/\ LET a == resp'.email IN
          (/\ resp'.op = "verify" /\ resp'.step = "find" /\ resp'.kind = "password"
           /\ Exists(a) /\ store[a].password # NULL
           /\ BcryptCompare(resp'.val, store[a].password))
          => (/\ resp'.status = 400 /\ resp'.body = MsgSamePassword
              /\ resp'.cookie = NoCookie
              /\ store' = store /\ sessions' = sessions)
       /\ \A r \in Reqs :
            LET a == req[r].acct IN
            /\ (req[r].pc = "vr_update" /\ req'[r].pc = "vr_send" /\ store[a].exists)
               => (/\ store'[a].password = Hash(req[r].val)
                   /\ store'[a].otp = NULL /\ store'[a].otpExpiry = NULL
                   /\ store'[a].emailVerified
                   /\ ~(store[a].password # NULL
                        /\ BcryptCompare(req[r].val, store[a].password)))
            /\ (req[r].pc = "vr_send" /\ req'[r].pc = "idle" /\ store[a].exists)
               => (resp'.status = 200 /\ resp'.cookie = a)]_vars

\* C12: a verify(password-reset) call with the stored, unexpired OTP is answered 200
\* "proceed to set new password", changes no field of any account and sets no cookie, so
\* the same OTP still passes the validation after the call.
C12_ResetVerifyKeepsOtp ==
    [][LET a == resp'.email IN
       (/\ resp'.op = "verify" /\ resp'.step = "find" /\ resp'.kind = "otp"
        /\ resp'.typ = "password-reset"
        /\ Exists(a)
        /\ store[a].otp = resp'.val /\ store[a].otpExpiry # NULL
        /\ ~(store[a].otpExpiry < now))
       => (/\ resp'.status = 200 /\ resp'.body = MsgProceed
           /\ resp'.cookie = NoCookie /\ sessions' = sessions
           /\ store' = store
           /\ ~OtpRejected(store'[a], resp'.val, now'))]_vars

C12_Witness ==
    /\ resp.op = "verify" /\ resp.typ = "password-reset" /\ resp.body = MsgProceed
    /\ resp.status = 200 /\ resp.cookie = NoCookie
    /\ Exists(resp.email)
    /\ store[resp.email].otp = resp.val
    /\ store[resp.email].otpExpiry >= now
    /\ resetProof[resp.email]

\* C13 (as claimed): every response of delete-account carries the directive that revokes
\* the session cookie.
C13_DeleteAlwaysRevokes ==
    resp.op = "delete" => resp.cookie = ClearCookie

\* C14: an account leaves the store only in a delete-account step, and that step removes
\* exactly the account named by the verified token of the call and changes no other
\* account; a call whose token is missing or does not verify removes nothing.
C14_DeleteOnlyTokenAccount ==
    [][/\ \A a \in Accounts :
            (store[a].exists /\ ~store'[a].exists)
            => (/\ resp'.op = "delete" /\ resp'.status = 200
                /\ resp'.val = a /\ a \in sessions
                /\ \A b \in Accounts \ {a} : store'[b] = store[b])
       /\ (resp'.op = "delete" /\ resp'.val \in {NoToken, BadToken}) => store' = store
       /\ (resp'.op = "delete" /\ resp'.val \in Accounts /\ store[resp'.val].exists)
          => (~store'[resp'.val].exists /\ resp'.status = 200)]_vars

C14_Witness ==
    /\ resp.op = "delete" /\ resp.status = 200 /\ resp.val = 1
    /\ ~store[1].exists /\ store[2].exists

\* C15: the session probe never changes the store; with no cookie it answers 200 "no
\* session" and sets no cookie; with a token that does not verify, or a token whose
\* account is not in the store, it revokes the cookie and returns no user; only with a
\* verified token of an existing account does it return the user.
C15_MeFourCases ==
    [][resp'.op = "me"
       => /\ store' = store /\ sessions' = sessions
          /\ resp'.val = NoToken
             => (/\ resp'.status = 200 /\ resp'.body = MsgNoSession
                 /\ resp'.acct = NoUser /\ resp'.cookie = NoCookie)
          /\ resp'.val = BadToken
             => (/\ resp'.status = 401 /\ resp'.acct = NoUser
                 /\ resp'.cookie = ClearCookie)
          /\ (resp'.val \in Accounts /\ ~store[resp'.val].exists)
             => (/\ resp'.status = 401 /\ resp'.acct = NoUser
                 /\ resp'.cookie = ClearCookie)
          /\ resp'.acct # NoUser
             => (/\ resp'.val \in sessions /\ resp'.acct = resp'.val
                 /\ store[resp'.val].exists
                 /\ resp'.status = 200 /\ resp'.body = MsgUser)
          /\ (resp'.val \in Accounts /\ store[resp'.val].exists)
             => (resp'.acct = resp'.val /\ resp'.cookie = NoCookie)]_vars

C15_Witness ==
    /\ resp.op = "me" /\ resp.val = 1 /\ ~store[1].exists
    /\ resp.acct = NoUser /\ resp.cookie = ClearCookie

\* C16 (as claimed): in every operation the store update is performed before the
\* session token of that operation is created and before its notification is sent: a
\* request takes its update step holding no token, and the update step itself sends
\* nothing and sets no cookie when a send follows it.
C16_UpdateBeforeToken ==
    [][\A r \in Reqs :
          /\ (/\ req[r].pc \in {"si_issue", "si_login", "rs_wait", "fp_issue",
                                "vf_update", "vr_update"}
              /\ req'[r].pc # req[r].pc)
             => req[r].token = NoToken
          /\ (req[r].pc \in {"vf_update", "vr_update"} /\ req'[r].pc # req[r].pc)
             => (resp'.mails = 0 /\ resp'.cookie = NoCookie)]_vars

\* C17: for every operation that dispatches a notification, the status, body and cookie
\* of the response and the stored account are what the operation gives when the send
\* succeeds, also when the send throws: they are fixed by the step and the store alone.
C17_MailFailureNonFatal ==
    [][\A r \in Reqs :
          LET a == req[r].acct IN
          /\ (req[r].pc = "si_issue" /\ req'[r].pc = "idle")
             => (/\ resp'.mails = 1
                 /\ resp'.status = 403 /\ resp'.body = MsgUnverified
                 /\ resp'.cookie = NoCookie)
          /\ (req[r].pc \in {"rs_wait", "fp_issue"} /\ req'[r].pc = "idle"
              /\ resp'.mails = 1)
             => (/\ resp'.status = 200
                 /\ resp'.body = (IF req[r].pc = "rs_wait" THEN MsgResendGeneric
                                  ELSE MsgForgotGeneric)
                 /\ resp'.cookie = NoCookie)
          /\ (req[r].pc \in {"si_issue", "rs_wait", "fp_issue"} /\ req'[r].pc = "idle"
              /\ resp'.mails = 1 /\ store[a].exists)
             => store'[a] = [store[a] EXCEPT !.otp = resp'.code,
                                             !.otpExpiry = now + OTP_TTL,
                                             !.updatedAt = now]
          /\ (req[r].pc \in {"vf_send", "vr_send"} /\ req'[r].pc = "idle")
             => (/\ resp'.mails >= 1
                 /\ store' = store
                 /\ IF store[a].exists
                    THEN /\ resp'.status = 200 /\ resp'.body = MsgUser
                         /\ resp'.cookie = a
                    ELSE /\ resp'.status = 500 /\ resp'.body = MsgRereadFailed
                         /\ resp'.cookie = NoCookie)]_vars

C17_Witness ==
    /\ resp.op = "verify" /\ resp.step = "vr_send" /\ ~resp.mailOk /\ resp.mails = 1
    /\ resp.status = 200 /\ resp.cookie = 1
    /\ store[1].exists /\ store[1].emailVerified /\ store[1].password = Hash(2)

\* C18: at any time at most one OTP value passes the validation for an account; an
\* issue write (resend-otp, forgot-password, sign-in of an unverified account) leaves the
\* account with exactly the otp it mailed and its own expiry, whatever other issue
\* operations are in flight, so every other code is rejected after it; and a verify
\* call is accepted only with the otp that is stored when it reads the account.
C18_LastWriterWins ==
    [][/\ \A a \in Accounts :
            Cardinality({v \in Otps : ~OtpRejected(store[a], v, now)}) <= 1
       /\ \A r \in Reqs :
            LET a == req[r].acct IN
            /\ (/\ req[r].pc \in {"si_issue", "rs_wait", "fp_issue"} /\ req'[r].pc = "idle"
                /\ resp'.mails = 1 /\ store[a].exists)
               => (/\ store'[a].otp = resp'.code
                   /\ store'[a].otpExpiry = now + OTP_TTL
                   /\ \A v \in Otps \ {resp'.code} : OtpRejected(store'[a], v, now'))
            /\ (req[r].pc = "idle" /\ req'[r].pc = "vf_update")
               => req'[r].val = store[req'[r].acct].otp
       /\ (resp'.op = "verify" /\ resp'.body = MsgProceed)
          => resp'.val = store[resp'.email].otp]_vars

C18_Witness ==
    /\ resp.op = "resend" /\ resp.mails = 1 /\ resp.code = 2 /\ resp.acct = 1
    /\ req[2].pc = "fp_issue" /\ req[2].acct = 1
    /\ store[1].exists /\ store[1].otp = 2 /\ store[1].otpExpiry = now + OTP_TTL
    /\ OtpRejected(store[1], 1, now)

\* C19 (as claimed): every answer to a well-formed resend-otp or forgot-password request
\* is given after the equalizing delay of the handler.
C19_AlwaysDelayed ==
    (resp.op \in {"resend", "forgot"} /\ resp.kind # "bad") => resp.delayed

\* C20: forgot-password never answers an existing account without issuing, whether the
\* account is verified or not and whatever otp it holds; its update (the account still
\* being in the store) sets otp to the generated code and otpExpiry to now + 10 minutes
\* and changes no other field than updatedAt, and no other account.
C20_ForgotAlwaysIssues ==
    [][/\ ~(/\ resp'.op = "forgot" /\ resp'.step = "find" /\ resp'.kind = "wf"
            /\ Exists(resp'.email))
       /\ \A r \in Reqs :
            LET a == req[r].acct IN
            /\ (req[r].pc = "idle" /\ req'[r].pc = "fp_issue") => store[req'[r].acct].exists
            /\ (req[r].pc = "fp_issue" /\ req'[r].pc # "fp_issue")
               => (/\ req'[r].pc = "idle"
                   /\ resp'.code \in Otps
                   /\ store[a].exists
                      => (/\ store'[a] = [store[a] EXCEPT !.otp = resp'.code,
                                                          !.otpExpiry = now + OTP_TTL,
                                                          !.updatedAt = now]
                          /\ ~OtpRejected(store'[a], resp'.code, now'))
                   /\ \A b \in Accounts \ {a} : store'[b] = store[b])]_vars

C20_Witness ==
    /\ resp.op = "forgot" /\ resp.step = "fp_issue" /\ resp.acct = 1 /\ resp.mailOk
    /\ store[1].exists /\ store[1].emailVerified
    /\ store[1].otp = resp.code /\ store[1].otpExpiry = now + OTP_TTL

\* C21: for every four random bytes, generateOTP returns exactly 6 characters, each a
\* decimal digit, that read as the number the bytes encode (a 32-bit unsigned integer)
\* modulo 1000000, zero-padded on the left.
C21_OtpSixDigits ==
    call.fn = "generateOTP"
    => LET b == call.bytes
           s == call.result
           DecValue(c) == CHOOSE v \in 0..9 : DecDigits[v + 1] = c
           expected == ((((b[1] * 256 + b[2]) * 256 + b[3]) % 1000000) * 256 + b[4]) % 1000000
       IN  /\ Len(s) = 6
           /\ \A i \in 1..6 : \E v \in 0..9 : s[i] = DecDigits[v + 1]
           /\ ((((DecValue(s[1]) * 10 + DecValue(s[2])) * 10 + DecValue(s[3])) * 10
                 + DecValue(s[4])) * 10 + DecValue(s[5])) * 10 + DecValue(s[6]) = expected

C21_Witness ==
    /\ call.fn = "generateOTP"
    /\ call.bytes = <<0, 15, 66, 66>>
    /\ call.result = <<"0", "0", "0", "0", "0", "2">>

\* C22 (as claimed): in the session probe, profile and delete-account, every response
\* given after the token failed verification and every 500 given to a request that
\* carried a token cookie clears the session cookie.
C22_FailuresClearCookie ==
    resp.op \in {"me", "profile", "delete"}
    => /\ resp.val = BadToken => resp.cookie = ClearCookie
       /\ (resp.status = 500 /\ resp.val # NoToken) => resp.cookie = ClearCookie

\* C23 (as claimed): in every reachable state an account with emailVerified = true has
\* no outstanding challenge that was issued for purpose signup.
C23_NoSignupChallengeOnVerified ==
    \A a \in Accounts :
       (store[a].exists /\ store[a].emailVerified) => purpose[a] # "signup"

\* C24 (as claimed): verify(signup) never accepts an OTP that was issued for purpose
\* password-reset, and verify(password-reset) never accepts an OTP that was issued for
\* purpose signup.
C24_OtpBoundToPurpose ==
    [][\A a \in Accounts :
          /\ (\E r \in Reqs : /\ req[r].pc = "idle" /\ req'[r].pc = "vf_update"
                              /\ req'[r].acct = a)
             => purpose[a] # "password-reset"
          /\ (/\ resp'.op = "verify" /\ resp'.body = MsgProceed /\ resp'.acct = a)
             => purpose[a] # "signup"]_vars

\* C25 (as claimed): a verify call with a signup or password-reset OTP made when
\* now >= otpExpiry of the account, the instant now = otpExpiry included, is answered
\* InvalidOrExpiredOtp whatever the submitted code, and never goes on to the update
\* (the already-verified answer of the signup guard aside).
C25_ExpiredAtExpiryInstant ==
    [][\A a \in Accounts :
          (store[a].exists /\ store[a].otpExpiry # NULL /\ now >= store[a].otpExpiry)
          => /\ \A r \in Reqs : ~(/\ req[r].pc = "idle" /\ req'[r].pc = "vf_update"
                                  /\ req'[r].acct = a)
             /\ (/\ resp'.op = "verify" /\ resp'.step = "find" /\ resp'.kind = "otp"
                 /\ resp'.acct = a /\ resp'.typ \in {"signup", "password-reset"}
                 /\ resp'.body # MsgAlreadyVerified)
                => (resp'.status = 400 /\ resp'.body = MsgInvalidOtp)]_vars

\* C26 (as claimed): a response sets a session cookie for an account only if its request
\* presented the matching password (sign-in) or the stored, unexpired OTP (the signup
\* verification), or completed a password reset after such an OTP match for the account.
C26_SessionOnlyWithProof ==
    [][resp'.cookie \in Accounts
       => \/ resp'.op = "signin" /\ resp'.step = "si_login"
          \/ resp'.op = "verify" /\ resp'.step = "vf_send"
          \/ resp'.op = "verify" /\ resp'.step = "vr_send" /\ otpProof[resp'.cookie]]_vars

\* C27 (as claimed): no response sets a session cookie for an account that is absent
\* from the store when the response is produced.
C27_NoSessionForDeleted ==
    resp.cookie \in Accounts => store[resp.cookie].exists

\* C28: no step of sign-in, resend-otp, forgot-password, verification or password reset
\* turns emailVerified of an account from true to false while the account exists.
C28_EmailVerifiedMonotone ==
    [][\A a \in Accounts :
          (store[a].exists /\ store[a].emailVerified /\ store'[a].exists)
          => store'[a].emailVerified]_vars

C28_Witness ==
    /\ resp.op = "resend" /\ resp.typ = "password-reset" /\ resp.mails = 1 /\ resp.acct = 1
    /\ store[1].exists /\ store[1].emailVerified /\ store[1].otp = resp.code

\* C29: the update of a successful sign-in sets lastLogin and updatedAt of its account
\* and changes no other field of it (otp, otpExpiry, emailVerified and the credential
\* stay, so an outstanding password-reset challenge stays outstanding) and no other
\* account; a sign-in answered 400 or 401 leaves the store unchanged.
C29_SignInFrame ==
    [][/\ \A r \in Reqs :
            (req[r].pc = "si_login" /\ req'[r].pc # "si_login")
            => LET a == req[r].acct IN
               /\ resp'.op = "signin" /\ resp'.status = 200
               /\ \A b \in Accounts \ {a} : store'[b] = store[b]
               /\ store'[a] = IF store[a].exists
                              THEN [store[a] EXCEPT !.lastLogin = now, !.updatedAt = now]
                              ELSE store[a]
       /\ (resp'.op = "signin" /\ resp'.status \in {400, 401}) => store' = store]_vars

C29_Witness ==
    /\ resp.op = "signin" /\ resp.status = 200 /\ resp.acct = 1 /\ resp.cookie = 1
    /\ store[1].lastLogin = now /\ store[1].emailVerified
    /\ store[1].otp # NULL /\ store[1].otpExpiry >= now /\ purpose[1] = "password-reset"

\* C30 (as claimed): no request for a path that starts with /dashboard, /settings or
\* /profile and carries no token cookie is passed through: it is redirected to /signin
\* with from set to the path; and no request that carries a token is passed through to
\* /signin, /signup, /forgot-password or a /verification/ page: it is redirected to /.
C30_MiddlewareGuards ==
    call.fn = "middleware"
    => /\ (call.token = "absent" /\ \E p \in protectedRoutes : IsPrefix(p, call.pathname))
          => call.result = NextResponseRedirect(<<"/", "s", "i", "g", "n", "i", "n">>,
                                                call.pathname)
       /\ (/\ call.token = "jwt"
           /\ \E p \in authRedirectRoutes \cup {VerificationPrefix} : IsPrefix(p, call.pathname))
          => call.result = NextResponseRedirect(<<"/">>, <<>>)

====
